---- MODULE Spec2Model ----
(***************************************************************************)
(* Forward-auth session state machine of oidc-cookie-forward-auth:         *)
(* createServer (create-server.ts), SessionDatabase (db.ts) and the host   *)
(* config resolver wired in index.ts.                                      *)
(*                                                                         *)
(* Strings that the code builds by concatenation are sequences of string   *)
(* parts; null / undefined / "header absent" is None.  Date.now() is read  *)
(* in ticks, TicksPerSecond of them to a second, where the code reads      *)
(* milliseconds (30 days of milliseconds exceed TLC's 32-bit integers);    *)
(* the session table stores whole seconds.                                 *)
(***************************************************************************)
EXTENDS Integers, Sequences, FiniteSets, TLC

None == "<none>"

(* ------------------------------ bounds -------------------------------- *)

\* The clock visits k * 15 days, and one tick later, k in 0..MaxPeriods.
MaxPeriods == 2

\* The resolution of the clock.
TicksPerSecond == 2

(* ------------------------- program constants -------------------------- *)

callbackPath == "/oauth2/callback"
logoutPath == "/oauth2/logout"
STATE_COOKIE_NAME == "state"
SESSION_COOKIE_NAME == "session"

\* oidcOptions as the deployment configures them
clientId == "test-client-id"
authorizationEndpoint == "https://idp.example.com/authorize"
scopes == <<"openid", "email">>

DOMAIN_BASE == ".example.com"

ThirtyDaysMs == TicksPerSecond * 60 * 60 * 24 * 30
FifteenDaysMs == TicksPerSecond * 60 * 60 * 24 * 15
ThirtyDaysSeconds == 60 * 60 * 24 * 30
StateMaxAge == 60 * 10

(* --------------------------- input domains ---------------------------- *)

Slots == {1}

States == {"s1", "s2"}
Tokens == {"t1", "t2"}
Codes == {"c1"}

\* sha256 + lowercase hex, on the strings that can reach it: the generated
\* tokens and a stored id replayed as a cookie value.
HashTable == [t1 |-> "h1", t2 |-> "h2", h1 |-> "hh1"]

SessionCookieValues == Tokens \cup {"h1"}

Protos == {"https"}
Hosts == {"app.example.com"}
Ports == {"443", "8443"}
Paths == {callbackPath, logoutPath, "/"}

\* Set-Cookie entries an upstream login may answer with
CookieA == [name |-> "sid", value |-> "v1", hasMaxAge |-> FALSE, maxAge |-> 0]
CookieB == [name |-> "csrf", value |-> "v2", hasMaxAge |-> TRUE, maxAge |-> 60 * 60]
CookieC == [name |-> "remember", value |-> "v3", hasMaxAge |-> TRUE,
            maxAge |-> 60 * 60 * 24 * 40]
UpstreamCookieLists == {<<CookieA>>, <<CookieB, CookieA>>, <<CookieC>>}
UpstreamStatuses == {200, 302, 502}

\* a thrown value: an Error with a message, or anything else
Thrown == {[isError |-> TRUE, text |-> <<"boom">>],
           [isError |-> FALSE, text |-> <<"raw">>]}

TimePoints == {k * FifteenDaysMs + f : k \in 0..MaxPeriods, f \in {0, 1}}

(* ------------------------------ helpers ------------------------------- *)

\* JS `!x` on a string | null
Falsy(x) == x = None \/ x = ""

Min(S) == CHOOSE m \in S : \A n \in S : m <= n

NumText(n) ==
  CASE n = 200 -> "200" [] n = 302 -> "302" [] n = 502 -> "502" [] OTHER -> "?"

Contains(text, part) ==
  \E i \in 0..(Len(text) - Len(part)) :
    \A j \in 1..Len(part) : text[i + j] = part[j]

\* `e instanceof Error ? e.message : fallback`
ErrorMessage(e, fallback) == IF e.isError THEN e.text ELSE <<fallback>>

\* Array.prototype.join over texts: the texts in order, `sep` between them
RECURSIVE Join(_, _)
Join(texts, sep) ==
  IF Len(texts) = 0 THEN << >>
  ELSE IF Len(texts) = 1 THEN texts[1]
  ELSE texts[1] \o <<sep>> \o Join(Tail(texts), sep)

(* ------------------------------- db.ts --------------------------------- *)

encodeSessionToken(token) == HashTable[token]

NoSession == [present |-> FALSE]

\* a DELETE that lost its WHERE clause
RemoveEveryRow(d, id) == << >>

Remove(d, id) == [k \in (DOMAIN d) \ {id} |-> d[k]]

\* an insert keyed by the token itself
createSessionRawId(d, token, upstreamCookies, t) ==
  IF token \in DOMAIN d
  THEN [ok |-> FALSE, db |-> d, session |-> NoSession]
  ELSE [ok |-> TRUE,
        db |-> [k \in (DOMAIN d) \cup {token} |->
                  IF k = token
                  THEN [expires_at |-> (t + ThirtyDaysMs) \div TicksPerSecond,
                        upstream_cookies |-> upstreamCookies]
                  ELSE d[k]],
        session |-> [present |-> TRUE, id |-> token,
                     expiresAt |-> t + ThirtyDaysMs,
                     upstreamCookies |-> upstreamCookies]]

\* an insert that stores the expiry without dividing it down to seconds
createSessionUndivided(d, token, upstreamCookies, t) ==
  LET sessionId == encodeSessionToken(token)
      session == [present |-> TRUE, id |-> sessionId,
                  expiresAt |-> t + ThirtyDaysMs,
                  upstreamCookies |-> upstreamCookies]
      row == [expires_at |-> session.expiresAt,
              upstream_cookies |-> upstreamCookies]
  IN  IF sessionId \in DOMAIN d
      THEN [ok |-> FALSE, db |-> d, session |-> NoSession]
      ELSE [ok |-> TRUE,
            db |-> [k \in (DOMAIN d) \cup {sessionId} |->
                      IF k = sessionId THEN row ELSE d[k]],
            session |-> session]

\* INSERT INTO session: ok is FALSE when the PRIMARY KEY constraint throws.
createSession(d, token, upstreamCookies, t) ==
  LET sessionId == encodeSessionToken(token)
      session == [present |-> TRUE, id |-> sessionId,
                  expiresAt |-> t + ThirtyDaysMs,
                  upstreamCookies |-> upstreamCookies]
      row == [expires_at |-> session.expiresAt \div TicksPerSecond,
              upstream_cookies |-> upstreamCookies]
  IN  IF sessionId \in DOMAIN d
      THEN [ok |-> FALSE, db |-> d, session |-> NoSession]
      ELSE [ok |-> TRUE,
            db |-> [k \in (DOMAIN d) \cup {sessionId} |->
                      IF k = sessionId THEN row ELSE d[k]],
            session |-> session]

\* a read that answers absent for an expired row and leaves the row
validateSessionTokenKeepsExpired(d, token, t) ==
  LET sessionId == encodeSessionToken(token)
  IN  IF sessionId \notin DOMAIN d
      THEN [db |-> d, session |-> NoSession]
      ELSE IF t >= d[sessionId].expires_at * TicksPerSecond
      THEN [db |-> d, session |-> NoSession]
      ELSE IF t >= d[sessionId].expires_at * TicksPerSecond - FifteenDaysMs
      THEN [db |-> [d EXCEPT ![sessionId].expires_at =
                      (t + ThirtyDaysMs) \div TicksPerSecond],
            session |-> [present |-> TRUE, id |-> sessionId,
                         expiresAt |-> t + ThirtyDaysMs,
                         upstreamCookies |-> d[sessionId].upstream_cookies]]
      ELSE [db |-> d,
            session |-> [present |-> TRUE, id |-> sessionId,
                         expiresAt |-> d[sessionId].expires_at * TicksPerSecond,
                         upstreamCookies |-> d[sessionId].upstream_cookies]]

\* a read that never renews
validateSessionTokenNoRenewal(d, token, t) ==
  LET sessionId == encodeSessionToken(token)
  IN  IF sessionId \notin DOMAIN d
      THEN [db |-> d, session |-> NoSession]
      ELSE IF t >= d[sessionId].expires_at * TicksPerSecond
      THEN [db |-> Remove(d, sessionId), session |-> NoSession]
      ELSE [db |-> d,
            session |-> [present |-> TRUE, id |-> sessionId,
                         expiresAt |-> d[sessionId].expires_at * TicksPerSecond,
                         upstreamCookies |-> d[sessionId].upstream_cookies]]

\* a read that forgets the expiry check
validateSessionTokenNoExpiry(d, token, t) ==
  LET sessionId == encodeSessionToken(token)
  IN  IF sessionId \notin DOMAIN d
      THEN [db |-> d, session |-> NoSession]
      ELSE [db |-> d,
            session |-> [present |-> TRUE, id |-> sessionId,
                         expiresAt |-> d[sessionId].expires_at * TicksPerSecond,
                         upstreamCookies |-> d[sessionId].upstream_cookies]]

\* a renewal that adds the lifetime to the stored expiry instead of to now
validateSessionTokenRenewsFromStored(d, token, t) ==
  LET sessionId == encodeSessionToken(token)
  IN  IF sessionId \notin DOMAIN d
      THEN [db |-> d, session |-> NoSession]
      ELSE
        LET row == d[sessionId]
            session == [present |-> TRUE, id |-> sessionId,
                        expiresAt |-> row.expires_at * TicksPerSecond,
                        upstreamCookies |-> row.upstream_cookies]
        IN  IF t >= session.expiresAt
            THEN [db |-> Remove(d, session.id), session |-> NoSession]
            ELSE IF t >= session.expiresAt - FifteenDaysMs
            THEN [db |-> [d EXCEPT ![session.id].expires_at =
                            (session.expiresAt + ThirtyDaysMs) \div TicksPerSecond],
                  session |-> [session EXCEPT
                                 !.expiresAt = session.expiresAt + ThirtyDaysMs]]
            ELSE [db |-> d, session |-> session]

\* a renewal that extends by the renewal threshold instead of the lifetime
validateSessionTokenShortRenewal(d, token, t) ==
  LET sessionId == encodeSessionToken(token)
  IN  IF sessionId \notin DOMAIN d
      THEN [db |-> d, session |-> NoSession]
      ELSE
        LET row == d[sessionId]
            session == [present |-> TRUE, id |-> sessionId,
                        expiresAt |-> row.expires_at * TicksPerSecond,
                        upstreamCookies |-> row.upstream_cookies]
        IN  IF t >= session.expiresAt
            THEN [db |-> Remove(d, session.id), session |-> NoSession]
            ELSE IF t >= session.expiresAt - FifteenDaysMs
            THEN [db |-> [d EXCEPT ![session.id].expires_at =
                            (t + FifteenDaysMs) \div TicksPerSecond],
                  session |-> [session EXCEPT !.expiresAt = t + FifteenDaysMs]]
            ELSE [db |-> d, session |-> session]

validateSessionToken(d, token, t) ==
  LET sessionId == encodeSessionToken(token)
  IN  IF sessionId \notin DOMAIN d
      THEN [db |-> d, session |-> NoSession]
      ELSE
        LET row == d[sessionId]
            session == [present |-> TRUE, id |-> sessionId,
                        expiresAt |-> row.expires_at * TicksPerSecond,
                        upstreamCookies |-> row.upstream_cookies]
        IN  IF t >= session.expiresAt
            THEN [db |-> Remove(d, session.id), session |-> NoSession]
            ELSE IF t >= session.expiresAt - FifteenDaysMs
            THEN [db |-> [d EXCEPT ![session.id].expires_at =
                            (t + ThirtyDaysMs) \div TicksPerSecond],
                  session |-> [session EXCEPT !.expiresAt = t + ThirtyDaysMs]]
            ELSE [db |-> d, session |-> session]

\* DELETE FROM session WHERE id = ?
\* a delete that matches no row
invalidateSessionKeepsRow(d, sessionId) == d

invalidateSession(d, sessionId) == Remove(d, sessionId)

(* ------------------------ upstream cookie jar -------------------------- *)

\* cookie.toJSON() under JSON.stringify: an undefined maxAge is no key at all
CookieToJSON(c) ==
  [name |-> c.name, value |-> c.value,
   maxAge |-> IF c.hasMaxAge THEN <<c.maxAge>> ELSE << >>]

\* new Bun.Cookie(parsed JSON entry)
CookieFromJSON(j) ==
  [name |-> j.name, value |-> j.value,
   hasMaxAge |-> Len(j.maxAge) > 0,
   maxAge |-> IF Len(j.maxAge) > 0 THEN j.maxAge[1] ELSE 0]

\* JSON.stringify(cookies.map((cookie) => cookie.toJSON()))
SerializeCookies(cookies) ==
  [json |-> [i \in 1..Len(cookies) |-> CookieToJSON(cookies[i])]]

\* JSON.parse(session.upstreamCookies).map((cookie) => new Bun.Cookie(cookie))
DeserializeCookies(payload) ==
  [i \in 1..Len(payload.json) |-> CookieFromJSON(payload.json[i])]

\* a header that lists the cookies last to first
getCookieHeaderReversed(cookies) ==
  Join([i \in 1..Len(cookies) |->
          <<cookies[Len(cookies) + 1 - i].name, "=",
            cookies[Len(cookies) + 1 - i].value>>], "; ")

\* cookies.map((cookie) => `${cookie.name}=${cookie.value}`).join("; ")
getCookieHeader(cookies) ==
  Join([i \in 1..Len(cookies) |-> <<cookies[i].name, "=", cookies[i].value>>],
       "; ")

\* a max-age that applies the cap only when no cookie carries one
SessionMaxAgeUncapped(cookies) ==
  IF \E k \in 1..Len(cookies) : cookies[k].hasMaxAge
  THEN Min({cookies[i].maxAge : i \in {k \in 1..Len(cookies) : cookies[k].hasMaxAge}})
  ELSE ThirtyDaysSeconds

\* Math.min(...cookies.map((cookie) => cookie.maxAge ?? Infinity), 30 days)
SessionMaxAge(cookies) ==
  Min({cookies[i].maxAge : i \in {k \in 1..Len(cookies) : cookies[k].hasMaxAge}}
      \cup {ThirtyDaysSeconds})

(* -------------------------- forwarded URL ------------------------------ *)

DefaultPort(proto) == IF proto = "https" THEN "443" ELSE "80"

\* new URL(`${proto}://${host}:${port}${path}`): a default port is dropped
ForwardedUrl(q) ==
  [proto |-> q.proto, hostname |-> q.host,
   port |-> IF q.port = DefaultPort(q.proto) THEN "" ELSE q.port,
   pathname |-> q.path, code |-> q.code, state |-> q.state]

\* URL.host: hostname, and ":port" when there is a port
UrlHost(u) == IF u.port = "" THEN <<u.hostname>> ELSE <<u.hostname, ":", u.port>>

\* URL.origin
UrlOrigin(u) == <<u.proto, "://">> \o UrlHost(u)

\* a redirect URI built from the host name alone, without the port
getClientNoPort(u) ==
  [clientId |-> clientId,
   redirectURI |-> <<u.proto, "://", u.hostname, callbackPath>>]

\* new arctic.OAuth2Client(clientId, clientSecret, new URL(callbackPath, origin))
getClient(u) ==
  [clientId |-> clientId,
   redirectURI |-> UrlOrigin(u) \o <<callbackPath>>]

\* OAuth2Client.createAuthorizationURL(authorizationEndpoint, state, scopes)
createAuthorizationURL(client, endpoint, state, scopeList) ==
  [endpoint |-> endpoint,
   response_type |-> "code",
   client_id |-> client.clientId,
   redirect_uri |-> client.redirectURI,
   state |-> state,
   scope |-> Join([i \in 1..Len(scopeList) |-> <<scopeList[i]>>], " ")]

(* ------------------------ responses and cookies ------------------------ *)

NoOp == [kind |-> "none"]
SetOp(value, maxAge) == [kind |-> "set", value |-> value, maxAge |-> maxAge]
DeleteOp == [kind |-> "delete"]

NoOps == [state |-> NoOp, session |-> NoOp]

NoLocation == [kind |-> "none"]
NoCookieHeader == [present |-> FALSE]

Response(status, body) ==
  [status |-> status, body |-> body, location |-> NoLocation,
   cookie |-> NoCookieHeader, clearSiteData |-> None, uncaught |-> FALSE]

\* Bun's answer to a handler that rejects
Uncaught(e) == [Response(500, <<"Internal Server Error">>) EXCEPT !.uncaught = TRUE]

\* a redirect that forgets to set the state cookie
redirectToAuthOpsNoState(ops, state) == ops

\* redirectToAuth: the state cookie it sets and the 302 it returns
redirectToAuthOps(ops, state) ==
  [ops EXCEPT !.state = SetOp(state, StateMaxAge)]

redirectToAuthResponse(u, state) ==
  [Response(302, << >>) EXCEPT
     !.location = [kind |-> "authorize",
                   url |-> createAuthorizationURL(getClient(u),
                             authorizationEndpoint, state, scopes)]]

(* ------------------------------- state --------------------------------- *)

VARIABLES
  now,        \* Date.now()
  db,         \* the session table: id -> [expires_at, upstream_cookies]
  hostCache,  \* index.ts hostCache: the host names whose config is cached
  slots,      \* the requests being handled
  trip        \* how far one browser has come through a login round trip

vars == <<now, db, hostCache, slots, trip>>

NoRequest == [path |-> None]
NoResponse == [status |-> 0]
NoTrip ==
  [phase |-> 0, val |-> None, cookies |-> << >>, last |-> 0, idle |-> None,
   until |-> 0]
NoRow == [present |-> FALSE]
NoOutcome == [kind |-> "none"]

IdleSlot ==
  [pc |-> "idle", req |-> NoRequest, ops |-> NoOps, calls |-> << >>,
   token |-> None, session |-> NoSession, login |-> << >>,
   verdict |-> None, seen |-> NoRow, outcome |-> NoOutcome,
   resp |-> NoResponse, replay |-> FALSE]

\* What the slot records beside the handler's own variables: `calls`, the
\* calls it made, in order; `seen`, the row its token had in the table when
\* it looked, and when that was; `outcome`, what the awaited call answered;
\* `replay`, whether the browser sent the request again right after the
\* response to the same callback.
Lookup(d, token, t) ==
  IF encodeSessionToken(token) \in DOMAIN d
  THEN [present |-> TRUE, id |-> encodeSessionToken(token),
        expires_at |-> d[encodeSessionToken(token)].expires_at, at |-> t]
  ELSE [present |-> FALSE, id |-> encodeSessionToken(token), at |-> t]

Threw(who, e) == [kind |-> "threw", who |-> who, error |-> e]

\* The requests tried.  Every subset of missing headers on every path; on
\* the callback path every combination of code, state and state cookie; on
\* the other paths every session cookie value; a port that is not the
\* default one on a check without cookies.
Requests ==
  {q \in [proto : Protos \cup {None}, host : Hosts \cup {None},
          port : Ports \cup {None}, path : Paths \cup {None},
          code : Codes \cup {None}, state : States \cup {None},
          stateCookie : States \cup {None},
          sessionCookie : SessionCookieValues \cup {None}] :
     /\ q.path # callbackPath => (q.code = None /\ q.state = None)
     /\ (None \in {q.proto, q.host, q.port, q.path}) =>
          /\ q.stateCookie = "s1" /\ q.sessionCookie = "t1"
          /\ q.path = callbackPath => (q.code = "c1" /\ q.state = "s1")
     /\ q.path = callbackPath => q.sessionCookie \in {None, "t1"}
     /\ q.path = callbackPath /\ q.sessionCookie = "t1" =>
          (q.code = "c1" /\ q.state = q.stateCookie)
     /\ (q.path = logoutPath /\ None \notin {q.proto, q.host, q.port}) =>
          q.stateCookie = None
     /\ q.path = "/" => q.stateCookie \in {None, "s1"}
     /\ q.path = "/" /\ q.stateCookie = "s1" => q.sessionCookie \in {None, "t1"}
     /\ q.port = "8443" =>
          (q.path = "/" /\ q.sessionCookie = None /\ q.stateCookie = None
           /\ q.proto # None /\ q.host # None)}

Init ==
  /\ now = 0
  /\ db = << >>
  /\ hostCache = {}
  /\ slots = [r \in Slots |-> IdleSlot]
  /\ trip = NoTrip

Free(r) == slots[r].pc = "idle"

\* a request enters the route handler
Begin(r, q) == [IdleSlot EXCEPT !.req = q, !.replay = ~Free(r)]

\* The browser of the round trip keeps the session cookie the response sets
\* until its max-age has passed.
Kept(t, op) ==
  IF t.phase \in {2, 3} /\ op.kind = "set"
  THEN [t EXCEPT !.until = now + op.maxAge * TicksPerSecond]
  ELSE t

\* the handler returns `resp`
Finish(r, slot, resp, t) ==
  /\ slots' = [slots EXCEPT ![r] = [slot EXCEPT !.pc = "done", !.resp = resp]]
  /\ trip' = Kept(t, slot.ops.session)

\* the handler waits at an await
Await(r, slot, pc) ==
  /\ slots' = [slots EXCEPT ![r] = [slot EXCEPT !.pc = pc]]
  /\ UNCHANGED trip

\* The round trip of one browser: (1) a check without a session cookie is
\* redirected and sets the state cookie `val`; (2) a callback that carries that
\* state cookie succeeds and sets the session cookie `val`, the upstream login
\* having answered `cookies`; (3) a check carries that session cookie, and
\* so do the checks after it while none came later than 15 days after the
\* use before it.  `last` is when the session was last created or read,
\* `until` when the browser drops the session cookie.
TripRedirected(q, state) ==
  IF Falsy(q.sessionCookie)
  THEN [NoTrip EXCEPT !.phase = 1, !.val = state] ELSE NoTrip

TripLoggedIn(q, token, cookies) ==
  IF trip.phase = 1 /\ q.stateCookie = trip.val
  THEN [NoTrip EXCEPT !.phase = 2, !.val = token, !.cookies = cookies,
                      !.last = now]
  ELSE NoTrip

\* how long the session went unused before a check at time `at`
Idle(gap) ==
  IF gap <= FifteenDaysMs THEN "active"
  ELSE IF gap >= ThirtyDaysMs THEN "lapsed"
  ELSE "between"

TripChecked(q, at) ==
  IF /\ trip.phase = 2 \/ (trip.phase = 3 /\ trip.idle = "active")
     /\ q.sessionCookie = trip.val
  THEN [trip EXCEPT !.phase = 3, !.idle = Idle(at - trip.last), !.last = at]
  ELSE NoTrip

\* a header check that forgets x-forwarded-port
MissingHeadersNoPort(q) ==
  Falsy(q.proto) \/ Falsy(q.host) \/ Falsy(q.path)

MissingHeaders(q) ==
  Falsy(q.proto) \/ Falsy(q.host) \/ Falsy(q.port) \/ Falsy(q.path)

(* ------------------- index.ts: host config resolver -------------------- *)

\* name.replace(new RegExp(`${RegExp.escape(DOMAIN_BASE)}$`), "")
ShortName(hostname) == IF hostname = "app.example.com" THEN "app" ELSE hostname

ConfigFilename(name) == IF Len(name) = 1 THEN <<ShortName(name[1])>> ELSE name

\* the Error getHostConfig throws when the import rejects with `e`
HostConfigError(name, e) ==
  [isError |-> TRUE,
   text |-> <<"Could not load host config for ">> \o name \o <<": ">>
            \o ErrorMessage(e, "Unknown error")
            \o <<". Make sure the file exists in /var/lib/oidc/config/">>
            \o ConfigFilename(name) \o <<".ts">>]

\* getHostConfig up to its first await: the cached value, or the import
Cached(name) == name \in hostCache

(* ---------------- create-server.ts: the route handler ------------------ *)

Called(slot, what) == [slot EXCEPT !.calls = Append(@, what)]

\* const hostConfig = await getHostConfig(forwardedUrl.host), then the
\* capability `capability` is called: the pc the handler waits at
CallHostConfig(slot, capability, pcImport, pcCapability) ==
  IF Cached(UrlHost(ForwardedUrl(slot.req)))
  THEN [Called(Called(slot, "getHostConfig"), capability)
          EXCEPT !.pc = pcCapability]
  ELSE [Called(Called(slot, "getHostConfig"), "import")
          EXCEPT !.pc = pcImport]

\* if (!proto || !host || !port || !path) return 400
RequestInvalid(r, q) ==
  /\ Free(r)
  /\ MissingHeaders(q)
  /\ Finish(r, Begin(r, q),
            Response(400, <<"Invalid forward-auth request">>), NoTrip)
  /\ UNCHANGED <<now, db, hostCache>>

\* the cookie a browser sends after a response that set, deleted or left it
SentAfter(op, cookie) ==
  IF op.kind = "set" THEN op.value
  ELSE IF op.kind = "delete" THEN None
  ELSE cookie

\* the callback a browser sends again after the response to it
Resent(slot) ==
  [slot.req EXCEPT !.stateCookie = SentAfter(slot.ops.state, @)]

Resendable(r) ==
  IF /\ slots[r].pc = "done"
     /\ ~MissingHeaders(slots[r].req)
     /\ slots[r].req.path = callbackPath
  THEN {Resent(slots[r])} ELSE {}

\* the request reaches the handler: a new one, or a callback sent again
Arrives(r, q) == Free(r) \/ q \in Resendable(r)

\* a callback that leaves the state cookie in place
handleCallbackOpsKeepState(ops) == ops

\* req.cookies.delete(STATE_COOKIE_NAME, mergedCookieOptions)
handleCallbackOps(ops) == [ops EXCEPT !.state = DeleteOp]

\* a state check that forgets to compare the parameter with the cookie
StateCheckFailsNoCompare(q) ==
  Falsy(q.code) \/ Falsy(q.stateCookie)

StateCheckFails(q) ==
  Falsy(q.code) \/ Falsy(q.stateCookie) \/ q.state # q.stateCookie

\* handleCallback up to the state check, which fails
CallbackRejected(r, q) ==
  /\ Arrives(r, q)
  /\ ~MissingHeaders(q)
  /\ ForwardedUrl(q).pathname = callbackPath
  /\ StateCheckFails(q)
  /\ Finish(r, [Begin(r, q) EXCEPT !.ops = handleCallbackOps(@)],
            Response(400, <<"Invalid state or missing code. Please try again.">>),
            NoTrip)
  /\ UNCHANGED <<now, db, hostCache>>

\* handleCallback up to `await validateAuthorizationCode(...)`
CallbackAccepted(r, q) ==
  /\ Arrives(r, q)
  /\ ~MissingHeaders(q)
  /\ ForwardedUrl(q).pathname = callbackPath
  /\ ~StateCheckFails(q)
  /\ Await(r, Called([Begin(r, q) EXCEPT !.ops = handleCallbackOps(@)],
                     "validateAuthorizationCode"),
           "cb_exchange")
  /\ UNCHANGED <<now, db, hostCache>>

\* a logout that answers without deleting the session cookie
LogoutKeepsCookie(r, q) ==
  /\ Free(r)
  /\ ~MissingHeaders(q)
  /\ ForwardedUrl(q).pathname = logoutPath
  /\ Finish(r, Begin(r, q),
            [Response(401, <<"Logged out successfully.">>)
               EXCEPT !.clearSiteData = "\"cookies\""],
            NoTrip)
  /\ UNCHANGED <<now, db, hostCache>>

\* the logout branch of the route handler
Logout(r, q) ==
  /\ Free(r)
  /\ ~MissingHeaders(q)
  /\ ForwardedUrl(q).pathname # callbackPath
  /\ ForwardedUrl(q).pathname = logoutPath
  /\ Finish(r, [Begin(r, q) EXCEPT !.ops.session = DeleteOp],
            [Response(401, <<"Logged out successfully. Go to ">>
                           \o UrlOrigin(ForwardedUrl(q))
                           \o <<" to log in again.">>)
               EXCEPT !.clearSiteData = "\"cookies\""],
            NoTrip)
  /\ UNCHANGED <<now, db, hostCache>>

\* the browser sends the callback again right after the response to it
CallbackResent(r) ==
  /\ Resendable(r) # {}
  /\ \/ CallbackRejected(r, Resent(slots[r]))
     \/ CallbackAccepted(r, Resent(slots[r]))

\* a dispatch that sends every path to handleOtherRequests as well
IsOtherRequestAnyPath(q) == ~MissingHeaders(q)

IsOtherRequest(q) ==
  /\ ~MissingHeaders(q)
  /\ ForwardedUrl(q).pathname # callbackPath
  /\ ForwardedUrl(q).pathname # logoutPath

\* handleOtherRequests without a session cookie
CheckNoCookie(r, q, state) ==
  /\ Free(r)
  /\ IsOtherRequest(q)
  /\ Falsy(q.sessionCookie)
  /\ LET slot == Begin(r, q)
     IN  Finish(r, [slot EXCEPT !.ops = redirectToAuthOps(@, state)],
                redirectToAuthResponse(ForwardedUrl(q), state),
                TripRedirected(q, state))
  /\ UNCHANGED <<now, db, hostCache>>

\* handleOtherRequests: validateSessionToken returns null
CheckSessionAbsent(r, q, state) ==
  /\ Free(r)
  /\ IsOtherRequest(q)
  /\ ~Falsy(q.sessionCookie)
  /\ LET v == validateSessionToken(db, q.sessionCookie, now)
         slot == [Called(Begin(r, q), "validateSessionToken")
                    EXCEPT !.seen = Lookup(db, q.sessionCookie, now)]
     IN  /\ ~v.session.present
         /\ db' = v.db
         /\ Finish(r, [slot EXCEPT !.ops = redirectToAuthOps(
                                      [@ EXCEPT !.session = DeleteOp], state)],
                   redirectToAuthResponse(ForwardedUrl(q), state),
                   TripChecked(q, now))
  /\ UNCHANGED <<now, hostCache>>

\* handleOtherRequests: a session is found; up to the await that follows
CheckSessionFound(r, q) ==
  /\ Free(r)
  /\ IsOtherRequest(q)
  /\ ~Falsy(q.sessionCookie)
  /\ LET v == validateSessionToken(db, q.sessionCookie, now)
         slot == [Called(Begin(r, q), "validateSessionToken")
                    EXCEPT !.session = v.session,
                           !.seen = Lookup(db, q.sessionCookie, now)]
         next == CallHostConfig(slot, "validateUpstreamSession",
                                "chk_import", "chk_validate")
     IN  /\ v.session.present
         /\ db' = v.db
         /\ slots' = [slots EXCEPT ![r] = next]
         /\ trip' = TripChecked(q, now)
  /\ UNCHANGED <<now, hostCache>>

(* --------------------- handleCallback, continued ----------------------- *)

\* what validateAuthorizationCode can throw
ExchangeFailures ==
  {[kind |-> "OAuth2RequestError", code |-> "invalid_grant", error |-> e] :
     e \in {[isError |-> TRUE, text |-> <<"invalid_grant">>]}}
  \cup {[kind |-> "ArcticFetchError", code |-> None, error |-> e] : e \in Thrown}
  \cup {[kind |-> "other", code |-> None, error |-> e] : e \in Thrown}

\* an outer catch that answers every failure alike
CatchResponseFlat(f) ==
  Response(500, <<"An unexpected error occurred: ">>
                \o ErrorMessage(f.error, "Unknown"))

\* the outer catch of handleCallback
CatchResponse(f) ==
  IF f.kind = "OAuth2RequestError"
  THEN Response(401, <<"Error: ", f.code>>)
  ELSE IF f.kind = "ArcticFetchError"
  THEN Response(502, <<"Error: ">> \o ErrorMessage(f.error, "Unknown"))
  ELSE Response(500, <<"An unexpected error occurred: ">>
                     \o ErrorMessage(f.error, "Unknown"))

\* an upstream failure reported as the server's own
UpstreamFailureAs500(text) ==
  Response(500, <<"Failed to authenticate with upstream service: ">> \o text)

UpstreamFailure(text) ==
  Response(502, <<"Failed to authenticate with upstream service: ">> \o text)

\* the exchange resolves: generateSessionToken(), then getHostConfig
ExchangeOk(r, token) ==
  /\ slots[r].pc = "cb_exchange"
  /\ LET next == CallHostConfig([slots[r] EXCEPT !.token = token],
                                "getUpstreamCookies", "cb_import", "cb_login")
     IN  Await(r, next, next.pc)
  /\ UNCHANGED <<now, db, hostCache>>

\* the exchange rejects
ExchangeFailed(r, f) ==
  /\ slots[r].pc = "cb_exchange"
  /\ Finish(r, [slots[r] EXCEPT !.outcome = [kind |-> "exchange", failure |-> f]],
            CatchResponse(f), NoTrip)
  /\ UNCHANGED <<now, db, hostCache>>

\* index.ts: the import resolves, the config is cached and returned
CallbackImportOk(r) ==
  /\ slots[r].pc = "cb_import"
  /\ hostCache' = hostCache \cup {UrlHost(ForwardedUrl(slots[r].req))}
  /\ Await(r, Called(slots[r], "getUpstreamCookies"), "cb_login")
  /\ UNCHANGED <<now, db>>

\* index.ts: the import rejects; the inner catch of handleCallback
CallbackImportFailed(r, e) ==
  /\ slots[r].pc = "cb_import"
  /\ LET thrown == HostConfigError(UrlHost(ForwardedUrl(slots[r].req)), e)
     IN  Finish(r, [slots[r] EXCEPT !.outcome = Threw("getHostConfig", thrown)],
                UpstreamFailure(ErrorMessage(thrown, "Unknown Error")),
                NoTrip)
  /\ UNCHANGED <<now, db, hostCache>>

\* getUpstreamCookies rejects; the inner catch of handleCallback
LoginThrew(r, e) ==
  /\ slots[r].pc = "cb_login"
  /\ Finish(r, [slots[r] EXCEPT !.outcome = Threw("getUpstreamCookies", e)],
            UpstreamFailure(ErrorMessage(e, "Unknown Error")),
            NoTrip)
  /\ UNCHANGED <<now, db, hostCache>>

\* a check that takes a redirect for success
ResponseOkBelow400(status) == status >= 200 /\ status <= 399

ResponseOk(status) == status >= 200 /\ status <= 299

\* getUpstreamCookies resolves with a response that is not ok
LoginRefused(r, status) ==
  /\ slots[r].pc = "cb_login"
  /\ ~ResponseOk(status)
  /\ Finish(r, [slots[r] EXCEPT !.outcome = [kind |-> "status", status |-> status]],
            UpstreamFailure(<<NumText(status)>>), NoTrip)
  /\ UNCHANGED <<now, db, hostCache>>

\* getUpstreamCookies resolves ok: createSession, the session cookie, 302
LoginOk(r, status, cookies) ==
  /\ slots[r].pc = "cb_login"
  /\ ResponseOk(status)
  /\ LET slot == Called(slots[r], "createSession")
         maxAge == SessionMaxAge(cookies)
         c == createSession(db, slot.token, SerializeCookies(cookies), now)
     IN  IF c.ok
         THEN /\ db' = c.db
              /\ Finish(r, [slot EXCEPT !.ops.session = SetOp(slot.token, maxAge),
                                        !.outcome = [kind |-> "status",
                                                     status |-> status],
                                        !.session = c.session,
                                        !.login = cookies],
                        [Response(302, << >>) EXCEPT
                           !.location = [kind |-> "origin",
                                         url |-> UrlOrigin(ForwardedUrl(slot.req))]],
                        TripLoggedIn(slot.req, slot.token, cookies))
         ELSE /\ Finish(r, [slot EXCEPT !.outcome = [kind |-> "store",
                                                     status |-> status]],
                        CatchResponse([kind |-> "other", code |-> None,
                          error |-> [isError |-> TRUE,
                                     text |-> <<"UNIQUE constraint failed: session.id">>]]),
                        NoTrip)
              /\ UNCHANGED db
  /\ UNCHANGED <<now, hostCache>>

(* ------------------- handleOtherRequests, continued -------------------- *)

CheckImportOk(r) ==
  /\ slots[r].pc = "chk_import"
  /\ hostCache' = hostCache \cup {UrlHost(ForwardedUrl(slots[r].req))}
  /\ Await(r, Called(slots[r], "validateUpstreamSession"), "chk_validate")
  /\ UNCHANGED <<now, db>>

\* getHostConfig rejects and nothing catches it
CheckImportFailed(r, e) ==
  /\ slots[r].pc = "chk_import"
  /\ LET thrown == HostConfigError(UrlHost(ForwardedUrl(slots[r].req)), e)
     IN  Finish(r, [slots[r] EXCEPT !.outcome = Threw("getHostConfig", thrown)],
                Uncaught(thrown), trip)
  /\ UNCHANGED <<now, db, hostCache>>

\* the Cookie header built from the stored session
SessionHeaders(session) ==
  [present |-> TRUE,
   value |-> getCookieHeader(DeserializeCookies(session.upstreamCookies))]

ValidateTrue(r) ==
  /\ slots[r].pc = "chk_validate"
  /\ Finish(r, [slots[r] EXCEPT !.verdict = "true"],
            [Response(200, <<"OK">>) EXCEPT
               !.cookie = SessionHeaders(slots[r].session)],
            trip)
  /\ UNCHANGED <<now, db, hostCache>>

ValidateFalse(r, state) ==
  /\ slots[r].pc = "chk_validate"
  /\ LET slot == Called([slots[r] EXCEPT !.verdict = "false"],
                        "invalidateSession")
     IN  /\ db' = invalidateSession(db, slot.req.sessionCookie)
         /\ Finish(r, [slot EXCEPT !.ops = redirectToAuthOps(
                                      [@ EXCEPT !.session = DeleteOp], state)],
                   redirectToAuthResponse(ForwardedUrl(slot.req), state),
                   NoTrip)
  /\ UNCHANGED <<now, hostCache>>

\* validateUpstreamSession rejects and nothing catches it
ValidateThrew(r, e) ==
  /\ slots[r].pc = "chk_validate"
  /\ Finish(r, [slots[r] EXCEPT !.verdict = "threw",
                                 !.outcome = Threw("validateUpstreamSession", e)],
            Uncaught(e), trip)
  /\ UNCHANGED <<now, db, hostCache>>

(* ---------------------------- environment ------------------------------ *)

\* the response has left; the slot takes the next request
Close(r) ==
  /\ slots[r].pc = "done"
  /\ slots' = [slots EXCEPT ![r] = IdleSlot]
  /\ UNCHANGED <<now, db, hostCache, trip>>

\* A finished request is looked at before anything else happens.
Settled == \A r \in DOMAIN slots : slots[r].pc # "done"

Tick(t) ==
  /\ Settled
  /\ t > now
  /\ now' = t
  /\ UNCHANGED <<db, hostCache, slots, trip>>

\* a row removed behind the server's back
OutOfBandDelete(id) ==
  /\ Settled
  /\ id \in DOMAIN db
  /\ db' = Remove(db, id)
  /\ trip' = (IF trip.phase \in {2, 3} /\ id = encodeSessionToken(trip.val)
              THEN NoTrip ELSE trip)
  /\ UNCHANGED <<now, hostCache, slots>>

\* The process is restarted: the host cache starts empty, the requests in
\* flight are gone, the session table (a file) is kept.
Restart ==
  /\ Settled
  /\ hostCache # {}
  /\ hostCache' = {}
  /\ slots' = [r \in DOMAIN slots |-> IdleSlot]
  /\ UNCHANGED <<now, db, trip>>

Next ==
  \/ \E r \in Slots, q \in Requests :
       \/ RequestInvalid(r, q)
       \/ CallbackRejected(r, q)
       \/ CallbackAccepted(r, q)
       \/ Logout(r, q)
       \/ CheckSessionFound(r, q)
       \/ \E state \in States :
            \/ CheckNoCookie(r, q, state)
            \/ CheckSessionAbsent(r, q, state)
  \/ \E r \in Slots :
       \/ \E token \in Tokens : ExchangeOk(r, token)
       \/ \E f \in ExchangeFailures : ExchangeFailed(r, f)
       \/ CallbackImportOk(r)
       \/ CheckImportOk(r)
       \/ \E e \in Thrown :
            \/ CallbackImportFailed(r, e)
            \/ LoginThrew(r, e)
            \/ CheckImportFailed(r, e)
            \/ ValidateThrew(r, e)
       \/ \E status \in UpstreamStatuses :
            \/ LoginRefused(r, status)
            \/ \E cookies \in UpstreamCookieLists : LoginOk(r, status, cookies)
       \/ CallbackResent(r)
       \/ ValidateTrue(r)
       \/ \E state \in States : ValidateFalse(r, state)
       \/ Close(r)
  \/ \E t \in TimePoints : Tick(t)
  \/ \E id \in DOMAIN db : OutOfBandDelete(id)
  \/ Restart

Spec == Init /\ [][Next]_vars

(* ------------------- two requests handled at a time -------------------- *)

\* The runtime handles a second request while the first waits at an await.
\* Two protected-resource checks in flight, each carrying one of two session
\* cookies, against a table that holds the sessions two logins created.
PairSlots == {1, 2}

PairRequests ==
  {q \in Requests :
     /\ ~MissingHeaders(q)
     /\ q.path = "/"
     /\ q.port = "443"
     /\ q.stateCookie = None
     /\ q.sessionCookie \in Tokens}

PairThrown == {[isError |-> TRUE, text |-> <<"boom">>]}

PairRows ==
  createSession(
    createSession(<< >>, "t1", SerializeCookies(<<CookieA>>), 0).db,
    "t2", SerializeCookies(<<CookieC>>), 0).db

InitPair ==
  /\ now = 0
  /\ db = PairRows
  /\ hostCache = {}
  /\ slots = [r \in PairSlots |-> IdleSlot]
  /\ trip = NoTrip

NextPair ==
  \/ \E r \in PairSlots, q \in PairRequests :
       \/ CheckSessionFound(r, q)
       \/ CheckSessionAbsent(r, q, "s1")
  \/ \E r \in PairSlots :
       \/ CheckImportOk(r)
       \/ \E e \in PairThrown :
            \/ CheckImportFailed(r, e)
            \/ ValidateThrew(r, e)
       \/ ValidateTrue(r)
       \/ ValidateFalse(r, "s1")
       \/ Close(r)
  \/ \E t \in TimePoints : Tick(t)

SpecPair == InitPair /\ [][NextPair]_vars

(* ------------------------------- claims -------------------------------- *)

Done(r) == slots[r].pc = "done"
OnCallback(q) == ~MissingHeaders(q) /\ q.path = callbackPath
Did(slot, what) == \E i \in 1..Len(slot.calls) : slot.calls[i] = what
RedirectsToAuth(resp) == resp.status = 302 /\ resp.location.kind = "authorize"

\* C1: a protected-resource check answers 200 only if, when the request
\* looked, its token hashed to a row of the table whose expiry was in the
\* future, and upstream-validate returned true in that request.
C1_OkOnlyIfValidAndValidated ==
  \A r \in Slots :
    LET slot == slots[r] IN
    (Done(r) /\ IsOtherRequest(slot.req) /\ slot.resp.status = 200) =>
      /\ ~Falsy(slot.req.sessionCookie)
      /\ slot.seen.present
      /\ slot.seen.id = HashTable[slot.req.sessionCookie]
      /\ slot.seen.expires_at * TicksPerSecond > slot.seen.at
      /\ slot.verdict = "true"

C1_Witness ==
  \E r \in Slots :
    /\ Done(r) /\ IsOtherRequest(slots[r].req)
    /\ slots[r].resp.status = 200 /\ slots[r].verdict = "true"

\* C2: after a check whose session is valid in the table and whose
\* upstream-validate returns false, the answer is a 302 to auth, the session
\* cookie is deleted, the row with the hash of the token is gone and
\* validateSessionToken with that token returns absent.
C2_RevalidationFailureDeletesRow ==
  \A r \in Slots :
    LET slot == slots[r] IN
    (Done(r) /\ IsOtherRequest(slot.req) /\ slot.verdict = "false") =>
      /\ RedirectsToAuth(slot.resp)
      /\ slot.ops.session = DeleteOp
      /\ HashTable[slot.req.sessionCookie] \notin DOMAIN db
      /\ ~validateSessionToken(db, slot.req.sessionCookie, now).session.present

\* C3: a callback goes past the state check only with a code, a state cookie
\* and a state parameter equal to the cookie; otherwise it answers 400
\* "Invalid state or missing code. Please try again." without calling the
\* exchange or the upstream login, creating a row or setting a session cookie.
C3_StateCheck ==
  /\ [](\A r \in Slots :
         LET slot == slots[r]
             q == slot.req
             passes == q.code \notin {None, ""} /\ q.stateCookie \notin {None, ""}
                       /\ q.state = q.stateCookie
         IN  (slot.pc # "idle" /\ OnCallback(q)) =>
               /\ (slot.pc # "done" \/ Len(slot.calls) > 0) => passes
               /\ ~passes =>
                    /\ slot.pc = "done"
                    /\ slot.resp.status = 400
                    /\ slot.resp.body =
                         <<"Invalid state or missing code. Please try again.">>
                    /\ slot.calls = << >>
                    /\ slot.ops.session = NoOp)
  /\ [][\A r \in Slots :
          (slots'[r].pc = "done" /\ slots[r].pc # "done"
           /\ OnCallback(slots'[r].req) /\ slots'[r].resp.status = 400)
            => db' = db]_vars

C3_Witness ==
  \E r \in Slots :
    /\ Done(r) /\ OnCallback(slots[r].req) /\ slots[r].resp.status = 400
    /\ slots[r].req.code = "c1"
    /\ slots[r].req.stateCookie = "s2" /\ slots[r].req.state = "s1"

\* C4: the expiry persisted for the row of a session created by a
\* successful callback is at most creation time + min(M, 30 days), M the
\* smallest max-age of the upstream cookies.
C4_RowExpiryWithinUpstreamMaxAge ==
  \A r \in Slots :
    LET slot == slots[r]
        maxAges == {slot.login[i].maxAge :
                      i \in {k \in 1..Len(slot.login) : slot.login[k].hasMaxAge}}
        lifetime == Min(maxAges \cup {60 * 60 * 24 * 30})
    IN  (Done(r) /\ OnCallback(slot.req) /\ slot.ops.session.kind = "set") =>
          /\ HashTable[slot.token] \in DOMAIN db
          /\ db[HashTable[slot.token]].expires_at * TicksPerSecond
               <= now + lifetime * TicksPerSecond

\* C5: a check with all four headers and no session cookie answers 302 to
\* the authorization endpoint with response_type=code, the client id,
\* redirect_uri = forwarded origin + callback path, the scopes joined by a
\* space and a non-empty state equal to the state cookie it sets (10 minutes).
C5_RedirectToAuthorizationEndpoint ==
  \A r \in Slots :
    LET slot == slots[r]
        q == slot.req
        origin == <<q.proto, "://", q.host>>
                  \o (IF q.proto = "https" /\ q.port = "443"
                      THEN << >> ELSE <<":", q.port>>)
    IN  (Done(r) /\ None \notin {q.proto, q.host, q.port, q.path}
         /\ q.path \notin {callbackPath, logoutPath}
         /\ q.sessionCookie = None) =>
          /\ slot.resp.status = 302
          /\ slot.resp.location.kind = "authorize"
          /\ slot.resp.location.url.endpoint = authorizationEndpoint
          /\ slot.resp.location.url.response_type = "code"
          /\ slot.resp.location.url.client_id = clientId
          /\ slot.resp.location.url.redirect_uri = origin \o <<callbackPath>>
          /\ slot.resp.location.url.scope = <<"openid", " ", "email">>
          /\ slot.resp.location.url.state \in States
          /\ slot.ops.state = [kind |-> "set",
                               value |-> slot.resp.location.url.state,
                               maxAge |-> 600]

C5_Witness ==
  \E r \in Slots :
    /\ Done(r) /\ slots[r].req.path = "/" /\ slots[r].req.port = "8443"
    /\ slots[r].req.sessionCookie = None /\ slots[r].resp.status = 302

\* C6: with any of the four forwarded headers missing, on any path, the
\* answer is 400 "Invalid forward-auth request"; no cookie is set or deleted,
\* nothing is called, and the session table and host cache are unchanged.
C6_MissingHeaders ==
  /\ [](\A r \in Slots :
         LET slot == slots[r]
             q == slot.req
         IN  (slot.pc # "idle" /\ None \in {q.proto, q.host, q.port, q.path}) =>
               /\ slot.pc = "done"
               /\ slot.resp.status = 400
               /\ slot.resp.body = <<"Invalid forward-auth request">>
               /\ slot.ops = NoOps
               /\ slot.calls = << >>)
  /\ [][\A r \in Slots :
          LET q == slots'[r].req
          IN  (slots'[r] # slots[r] /\ slots'[r].pc # "idle"
               /\ None \in {q.proto, q.host, q.port, q.path})
                => (db' = db /\ hostCache' = hostCache)]_vars

C6_Witness ==
  \E r \in Slots :
    /\ Done(r) /\ slots[r].resp.status = 400
    /\ slots[r].req.port = None /\ slots[r].req.proto = "https"
    /\ slots[r].req.host # None /\ slots[r].req.path = logoutPath
    /\ slots[r].req.sessionCookie = "t1" /\ DOMAIN db # {}

\* `text` is the cookies' name=value pairs, in their order, joined by "; "
IsPairsJoined(text, cookies) ==
  LET n == Len(cookies) IN
  /\ Len(text) = (IF n = 0 THEN 0 ELSE 4 * n - 1)
  /\ \A i \in 1..n :
       /\ text[4 * i - 3] = cookies[i].name
       /\ text[4 * i - 2] = "="
       /\ text[4 * i - 1] = cookies[i].value
       /\ i < n => text[4 * i] = "; "

\* C7: the round trip (an unauthenticated check is redirected and sets the
\* state cookie; a callback with a code, that cookie and the matching state
\* succeeds; a check carries the session cookie it issued and upstream-validate
\* returns true) ends in 200 "OK" whose Cookie header is the upstream login's
\* cookies as name=value pairs joined by "; " in their order.
C7_RoundTrip ==
  \A r \in Slots :
    LET slot == slots[r] IN
    (Done(r) /\ trip.phase = 3 /\ IsOtherRequest(slot.req)
     /\ slot.req.sessionCookie = trip.val /\ slot.verdict = "true") =>
      /\ slot.resp.status = 200
      /\ slot.resp.body = <<"OK">>
      /\ slot.resp.cookie.present
      /\ IsPairsJoined(slot.resp.cookie.value, trip.cookies)

C7_Witness ==
  \E r \in Slots :
    /\ Done(r) /\ trip.phase = 3 /\ slots[r].req.sessionCookie = trip.val
    /\ slots[r].resp.status = 200
    /\ Len(trip.cookies) = 2

\* C8: a check whose session cookie has no session in the table (no row, or
\* an expired one) answers 302 to auth, deletes the session cookie, sets a
\* fresh state cookie and does not call upstream-validate.
C8_AbsentSessionRedirects ==
  \A r \in Slots :
    LET slot == slots[r]
        q == slot.req
    IN  (slot.pc # "idle" /\ IsOtherRequest(q) /\ q.sessionCookie # None
         /\ (~slot.seen.present
             \/ slot.seen.expires_at * TicksPerSecond <= slot.seen.at)) =>
          /\ slot.pc = "done"
          /\ RedirectsToAuth(slot.resp)
          /\ ~slot.resp.uncaught
          /\ slot.ops.session = DeleteOp
          /\ slot.ops.state.kind = "set"
          /\ slot.ops.state.value = slot.resp.location.url.state
          /\ ~Did(slot, "validateUpstreamSession")

C8_Witness ==
  \E r \in Slots :
    /\ Done(r) /\ IsOtherRequest(slots[r].req)
    /\ slots[r].seen.present
    /\ slots[r].seen.expires_at * TicksPerSecond <= slots[r].seen.at
    /\ slots[r].resp.status = 302

\* a callback that ends without a session: no createSession, no session
\* cookie
NoSessionMade(slot) ==
  ~Did(slot, "createSession") /\ slot.ops.session = NoOp

UpstreamFailureText == "Failed to authenticate with upstream service: "

\* C9, as claimed: in a callback past the state check and the exchange, a
\* throw of host-config resolution or of upstream login gives 502 with a
\* message that contains the thrown error text; a non-2xx upstream login with
\* status S gives 502 "Failed to authenticate with upstream service: S"; no
\* row is created and no session cookie is set.
C9_UpstreamLoginFailures ==
  \A r \in Slots :
    LET slot == slots[r] IN
    (Done(r) /\ OnCallback(slot.req)) =>
      /\ (slot.outcome.kind = "threw") =>
           /\ slot.resp.status = 502
           /\ Contains(slot.resp.body, slot.outcome.error.text)
           /\ NoSessionMade(slot)
      /\ (slot.outcome.kind = "status"
          /\ ~(slot.outcome.status \in 200..299)) =>
           /\ slot.resp.status = 502
           /\ slot.resp.body = <<UpstreamFailureText, NumText(slot.outcome.status)>>
           /\ NoSessionMade(slot)

\* C9, amended: the 502 message carries the message of a thrown Error, and
\* reads "Unknown Error" when the thrown value is not an Error.
C9_UpstreamLoginFailuresAmended ==
  /\ [](\A r \in Slots :
         LET slot == slots[r] IN
         (Done(r) /\ OnCallback(slot.req)) =>
           /\ (slot.outcome.kind = "threw") =>
                /\ slot.resp.status = 502
                /\ slot.resp.body =
                     <<UpstreamFailureText>>
                     \o (IF slot.outcome.error.isError
                         THEN slot.outcome.error.text ELSE <<"Unknown Error">>)
                /\ NoSessionMade(slot)
           /\ (slot.outcome.kind = "status"
               /\ ~(slot.outcome.status \in 200..299)) =>
                /\ slot.resp.status = 502
                /\ slot.resp.body =
                     <<UpstreamFailureText, NumText(slot.outcome.status)>>
                /\ NoSessionMade(slot))
  /\ [][\A r \in Slots :
          (slots'[r] # slots[r] /\ Done(r)' /\ OnCallback(slots'[r].req)
           /\ slots'[r].resp.status = 502) => db' = db]_vars

C9_Witness ==
  \E r \in Slots :
    /\ Done(r) /\ OnCallback(slots[r].req)
    /\ slots[r].outcome.kind = "threw"
    /\ slots[r].outcome.who = "getUpstreamCookies"
    /\ ~slots[r].outcome.error.isError
    /\ slots[r].resp.status = 502

\* C10: a failed exchange answers by kind: 401 with the provider's error code
\* for a rejected grant, 502 for a transport failure, 500 for anything else;
\* a createSession failure answers 5xx; none sets a session cookie, and after
\* a failed exchange upstream login is not called.
C10_ExchangeFailures ==
  /\ [](\A r \in Slots :
         LET slot == slots[r] IN
         (Done(r) /\ OnCallback(slot.req)) =>
           /\ (slot.outcome.kind = "exchange") =>
                /\ (slot.outcome.failure.kind = "OAuth2RequestError") =>
                     /\ slot.resp.status = 401
                     /\ slot.resp.body = <<"Error: ", slot.outcome.failure.code>>
                /\ (slot.outcome.failure.kind = "ArcticFetchError") =>
                     slot.resp.status = 502
                /\ (slot.outcome.failure.kind = "other") =>
                     slot.resp.status = 500
                /\ slot.ops.session = NoOp
                /\ ~Did(slot, "getUpstreamCookies")
                /\ ~Did(slot, "createSession")
           /\ (slot.outcome.kind = "store") =>
                /\ slot.resp.status \in 500..599
                /\ slot.ops.session = NoOp)
  /\ [][\A r \in Slots :
          (slots'[r] # slots[r] /\ Done(r)' /\ OnCallback(slots'[r].req)
           /\ slots'[r].outcome.kind \in {"exchange", "store"}) => db' = db]_vars

C10_Witness ==
  \E r \in Slots :
    /\ Done(r) /\ OnCallback(slots[r].req)
    /\ slots[r].outcome.kind = "store"
    /\ slots[r].resp.status = 500

OnLogout(q) == ~MissingHeaders(q) /\ q.path = logoutPath

\* C11: a logout request with all four headers answers 401 with
\* Clear-Site-Data: "cookies" and deletes the session cookie, with or without
\* a session cookie or a row, and calls nothing.
C11_Logout ==
  \A r \in Slots :
    LET slot == slots[r] IN
    (slot.pc # "idle" /\ OnLogout(slot.req)) =>
      /\ slot.pc = "done"
      /\ slot.resp.status = 401
      /\ slot.resp.clearSiteData = "\"cookies\""
      /\ slot.ops.session = DeleteOp
      /\ slot.calls = << >>

C11_Witness ==
  \E r \in Slots :
    /\ Done(r) /\ OnLogout(slots[r].req)
    /\ slots[r].req.sessionCookie = None /\ db = << >>
    /\ slots[r].resp.status = 401

\* C12: after a logout that carries the session cookie of an existing
\* session, the table no longer holds that session's row, and
\* validateSessionToken with that token returns absent.
C12_LogoutDeletesRow ==
  \A r \in Slots :
    LET slot == slots[r] IN
    (Done(r) /\ OnLogout(slot.req) /\ slot.req.sessionCookie # None) =>
      /\ encodeSessionToken(slot.req.sessionCookie) \notin DOMAIN db
      /\ ~validateSessionToken(db, slot.req.sessionCookie, now).session.present

\* C13: only the hash of a session token is persisted.  Every row's id is
\* the hash of a generated token and is no raw token, and no cookie payload
\* holds one; the row of a session a callback issued is keyed by the hash of
\* the token in the session cookie; createSession and validateSessionToken
\* key a token by encodeSessionToken(token).
C13_OnlyHashPersisted ==
  /\ \A id \in DOMAIN db :
       /\ id \in {encodeSessionToken(t) : t \in Tokens}
       /\ id \notin Tokens
       /\ \A i \in 1..Len(db[id].upstream_cookies.json) :
            /\ db[id].upstream_cookies.json[i].name \notin Tokens
            /\ db[id].upstream_cookies.json[i].value \notin Tokens
  /\ \A r \in Slots :
       LET slot == slots[r] IN
       (Done(r) /\ OnCallback(slot.req) /\ slot.ops.session.kind = "set") =>
         /\ slot.ops.session.value \in Tokens
         /\ slot.session.id = encodeSessionToken(slot.ops.session.value)
         /\ slot.session.id \in DOMAIN db
         /\ slot.ops.session.value \notin DOMAIN db
  /\ \A t \in Tokens :
       encodeSessionToken(t) \notin DOMAIN db =>
         LET made == createSession(db, t, SerializeCookies(<<CookieA>>), now)
             read == validateSessionToken(made.db, t, now)
         IN  /\ made.ok
             /\ made.session.id = encodeSessionToken(t)
             /\ DOMAIN made.db = DOMAIN db \cup {encodeSessionToken(t)}
             /\ read.session.present
             /\ read.session.id = encodeSessionToken(t)

C13_Witness ==
  \E r \in Slots :
    /\ Done(r) /\ OnCallback(slots[r].req)
    /\ slots[r].ops.session.kind = "set"
    /\ slots[r].ops.session.value = "t2"
    /\ DOMAIN db = {"h1", "h2"}

\* C14: the pending authorization state is single use.  Every callback
\* response, whatever its status, deletes the state cookie, and the callback a
\* browser that honours the response sends again with the same state, with
\* no redirect to auth in between, is answered 400.
C14_StateSingleUse ==
  \A r \in Slots :
    LET slot == slots[r] IN
    /\ (Done(r) /\ OnCallback(slot.req)) =>
         /\ slot.resp.status \in {400, 401, 500, 502, 302}
         /\ slot.ops.state = DeleteOp
    /\ (slot.pc # "idle" /\ slot.replay) =>
         /\ OnCallback(slot.req)
         /\ slot.pc = "done"
         /\ slot.resp.status = 400
         /\ slot.calls = << >>

C14_Witness ==
  \E r \in Slots :
    /\ Done(r) /\ slots[r].replay
    /\ slots[r].req.code = "c1" /\ slots[r].req.state = "s1"
    /\ slots[r].req.stateCookie = None
    /\ slots[r].req.sessionCookie = "t1"
    /\ slots[r].resp.status = 400
    /\ DOMAIN db # {}

\* The store's side of sliding renewal.  After a successful callback, a
\* check that carries the session cookie no later than 15 days after the
\* session was created or last read, every earlier check having done so too,
\* finds the session, and is answered 200 when upstream-validate returns
\* true; a check that comes 30 days or more after the last use is redirected
\* to auth.
SlidingRenewalAtStore ==
  \A r \in Slots :
    LET slot == slots[r] IN
    (Done(r) /\ IsOtherRequest(slot.req) /\ trip.phase = 3
     /\ slot.req.sessionCookie = trip.val) =>
      /\ (trip.idle = "active") =>
           /\ slot.session.present
           /\ slot.session.expiresAt > slot.seen.at
           /\ slot.verdict = "true" => slot.resp.status = 200
           /\ slot.verdict = "true" => ~RedirectsToAuth(slot.resp)
      /\ (trip.idle = "lapsed") =>
           /\ ~slot.session.present
           /\ RedirectsToAuth(slot.resp)

\* the third use of a session, 30 days after the login, is approved
SlidingRenewalAtStoreReached ==
  \E r \in Slots :
    /\ Done(r) /\ IsOtherRequest(slots[r].req) /\ trip.phase = 3
    /\ slots[r].req.sessionCookie = trip.val
    /\ trip.idle = "active"
    /\ trip.cookies = <<CookieA>>
    /\ slots[r].seen.at >= ThirtyDaysMs
    /\ slots[r].resp.status = 200

\* the browser of the round trip is using its session: it has logged in and
\* no use of the session came later than 15 days after the one before it
ActiveTrip ==
  /\ trip.phase \in {2, 3}
  /\ trip.phase = 3 => trip.idle = "active"
  /\ now - trip.last <= FifteenDaysMs

\* the session cookie that browser sends now
BrowserCookie == IF now < trip.until THEN trip.val ELSE None

\* C15: active users are never logged out.  A browser that logged in with
\* upstream cookies carrying no max-age and checks at least once in every 15
\* days is never redirected to auth by a check.
C15_ActiveNeverLoggedOut ==
  [][\A r \in Slots :
       (/\ ActiveTrip
        /\ \A i \in 1..Len(trip.cookies) : ~trip.cookies[i].hasMaxAge
        /\ Free(r) /\ slots'[r].pc = "done"
        /\ IsOtherRequest(slots'[r].req)
        /\ slots'[r].req.sessionCookie = BrowserCookie)
         => ~RedirectsToAuth(slots'[r].resp)]_vars

\* the request called validateSessionToken (at slot.seen.at)
Looked(slot) ==
  slot.pc # "idle" /\ IsOtherRequest(slot.req) /\ slot.req.sessionCookie # None

\* C16: a session validateSessionToken returns expires strictly after the
\* call; a row found with now >= expiresAt is answered absent and is removed
\* from the table, and no other row is touched.  Expiry is detected only on
\* read: the server removes no row but an expired one it is looking up, and
\* the passing of time removes none.
C16_ExpiryOnRead ==
  /\ [](/\ \A r \in Slots :
            LET slot == slots[r] IN
            Looked(slot) =>
              /\ slot.session.present =>
                   /\ slot.session.expiresAt > slot.seen.at
                   /\ slot.seen.present
                   /\ slot.seen.expires_at * TicksPerSecond > slot.seen.at
              /\ (slot.seen.present
                  /\ slot.seen.at >= slot.seen.expires_at * TicksPerSecond) =>
                   /\ ~slot.session.present
                   /\ slot.pc = "done"
                   /\ slot.seen.id \notin DOMAIN db
        /\ \A tok \in Tokens :
            LET v == validateSessionToken(db, tok, now)
                id == encodeSessionToken(tok)
            IN  /\ v.session.present => v.session.expiresAt > now
                /\ DOMAIN v.db \subseteq DOMAIN db
                /\ \A other \in DOMAIN db \ {id} :
                     other \in DOMAIN v.db /\ v.db[other] = db[other])
  /\ [][/\ now' # now => db' = db
        /\ slots' # slots =>
             \A id \in DOMAIN db \ DOMAIN db' :
               \E r \in Slots :
                 /\ Free(r) /\ Looked(slots'[r])
                 /\ slots'[r].seen.id = id
                 /\ slots'[r].seen.at >= db[id].expires_at * TicksPerSecond]_vars

\* an expired row is removed by the check that looks it up; the other row,
\* expired as well, stays
C16_Witness ==
  \E r \in Slots :
    /\ Done(r) /\ Looked(slots[r])
    /\ slots[r].seen.present /\ slots[r].seen.id = "h1"
    /\ slots[r].seen.at >= slots[r].seen.expires_at * TicksPerSecond
    /\ DOMAIN db = {"h2"}
    /\ now >= db["h2"].expires_at * TicksPerSecond

\* what C17 says of one read of an unexpired row, `persisted` being the
\* expiry a renewal is to leave in the row, in ticks
RenewalOfRead(d, tok, t, persisted) ==
  LET id == encodeSessionToken(tok)
      stored == d[id].expires_at * TicksPerSecond
      v == validateSessionToken(d, tok, t)
  IN  /\ v.session.present
      /\ v.session.id = id
      /\ v.session.upstreamCookies = d[id].upstream_cookies
      /\ DOMAIN v.db = DOMAIN d
      /\ v.db[id].upstream_cookies = d[id].upstream_cookies
      /\ IF stored - t <= 15 * 24 * 60 * 60 * TicksPerSecond
         THEN /\ v.session.expiresAt = t + 30 * 24 * 60 * 60 * TicksPerSecond
              /\ v.db[id].expires_at * TicksPerSecond = persisted
         ELSE /\ v.session.expiresAt = stored
              /\ v.db = d

Unexpired(tok) ==
  /\ encodeSessionToken(tok) \in DOMAIN db
  /\ now < db[encodeSessionToken(tok)].expires_at * TicksPerSecond

\* C17, as claimed: validateSessionToken on an unexpired row renews it exactly
\* when expiresAt - now <= 15 days, and then the returned session and the
\* persisted row both get expiry now + 30 days; otherwise the row is unchanged
\* and the returned expiry is the stored one.  Id and payload never change.
C17_RenewalWindow ==
  \A tok \in Tokens :
    Unexpired(tok) =>
      RenewalOfRead(db, tok, now, now + 30 * 24 * 60 * 60 * TicksPerSecond)

\* C17, amended: on renewal the returned session expires at now + 30 days and
\* the persisted row at now + 30 days rounded down to the whole second.
C17_RenewalWindowAmended ==
  /\ \A tok \in Tokens :
       Unexpired(tok) =>
         RenewalOfRead(db, tok, now,
           ((now + 30 * 24 * 60 * 60 * TicksPerSecond) \div TicksPerSecond)
             * TicksPerSecond)
  /\ \A r \in Slots :
       LET slot == slots[r]
           stored == slot.seen.expires_at * TicksPerSecond
       IN  (Looked(slot) /\ slot.session.present) =>
             slot.session.expiresAt =
               (IF stored - slot.seen.at <= FifteenDaysMs
                THEN slot.seen.at + ThirtyDaysMs ELSE stored)

\* a check renews a row between two whole seconds: the row is persisted with
\* an earlier expiry than the session the call returned
C17_Witness ==
  \E r \in Slots :
    LET slot == slots[r] IN
    /\ Looked(slot) /\ slot.session.present
    /\ slot.seen.expires_at * TicksPerSecond - slot.seen.at <= FifteenDaysMs
    /\ slot.session.expiresAt = slot.seen.at + ThirtyDaysMs
    /\ slot.seen.id \in DOMAIN db
    /\ db[slot.seen.id].expires_at * TicksPerSecond < slot.session.expiresAt

\* C18: when host-config resolution, upstream login or upstream validation
\* throws, in the callback flow and in the revalidation flow alike, the
\* request ends with a 502 response and never with an uncaught exception.
C18_BoundaryFailuresCaught ==
  \A r \in Slots :
    (Done(r) /\ slots[r].outcome.kind = "threw") =>
      /\ slots[r].resp.status = 502
      /\ ~slots[r].resp.uncaught

\* the import the slot's request started has resolved
Loaded(slot) ==
  \E i \in 1..Len(slot.calls) - 1 :
    slot.calls[i] = "import" /\ slot.calls[i + 1] = "validateUpstreamSession"

\* C19: the host config of a host is resolved once; however the requests for
\* one host interleave, no two of them both get their config from the loader.
C19_ResolvedOnce ==
  \A r1, r2 \in DOMAIN slots :
    (/\ r1 # r2
     /\ Loaded(slots[r1]) /\ Loaded(slots[r2])
     /\ slots[r1].req.host = slots[r2].req.host) => FALSE

\* The rest of C19 holds: a failed load ends the request with the error, and
\* the request has called the loader once.
FailedLoadSurfaced ==
  \A r \in DOMAIN slots :
    LET slot == slots[r] IN
    (slot.pc = "done" /\ slot.outcome.kind = "threw"
       /\ slot.outcome.who = "getHostConfig") =>
      /\ slot.outcome.error =
           HostConfigError(UrlHost(ForwardedUrl(slot.req)),
                           [isError |-> TRUE, text |-> <<"boom">>])
      /\ Cardinality({i \in 1..Len(slot.calls) : slot.calls[i] = "import"}) = 1
      /\ slot.resp.uncaught

\* the table with no row but the one of `id`
OnlyRow(d, id) == [k \in (DOMAIN d) \cap {id} |-> d[k]]

\* the answer of a finished check, from what that request alone has seen
AnswersItsOwn(slot) ==
  IF ~slot.session.present \/ slot.verdict = "false"
  THEN RedirectsToAuth(slot.resp)
  ELSE IF slot.outcome.kind = "threw"
  THEN slot.resp.uncaught
  ELSE /\ slot.resp.status = 200
       /\ slot.resp.cookie = SessionHeaders(slot.session)

\* C20: concurrent requests for different session tokens do not interfere.  A
\* step of a request that carries token t leaves every row but the row of t
\* as it was (none created, renewed or deleted); its read leaves the row of t
\* and returns the session as the same read does on a table that holds that
\* row alone; and its response is the one its own session, import and upstream
\* verdict give.
C20_DifferentTokensDoNotInterfere ==
  [][\A r \in DOMAIN slots :
       (slots'[r] # slots[r] /\ slots'[r].pc # "idle") =>
         LET tok == slots'[r].req.sessionCookie
             id == encodeSessionToken(tok)
             alone == validateSessionToken(OnlyRow(db, id), tok, now)
         IN  /\ \A k \in (DOMAIN db \cup DOMAIN db') \ {id} :
                  k \in DOMAIN db /\ k \in DOMAIN db' /\ db'[k] = db[k]
             /\ slots[r].pc = "idle" =>
                  /\ OnlyRow(db', id) = alone.db
                  /\ slots'[r].session = alone.session
             /\ slots'[r].pc = "done" => AnswersItsOwn(slots'[r])]_vars

\* two checks in flight on different tokens, one of which has renewed its row
\* while the other, which read earlier, still waits
C20_Witness ==
  \E r1, r2 \in DOMAIN slots :
    /\ r1 # r2
    /\ slots[r1].pc = "chk_validate" /\ slots[r2].pc = "chk_validate"
    /\ slots[r1].req.sessionCookie # slots[r2].req.sessionCookie
    /\ slots[r1].seen.at < slots[r2].seen.at
    /\ slots[r2].session.expiresAt = slots[r2].seen.at + ThirtyDaysMs
    /\ db[slots[r1].seen.id].expires_at = slots[r1].seen.expires_at
    /\ db[slots[r2].seen.id].expires_at # slots[r2].seen.expires_at

\* the slot holds a check whose read found its row unexpired
ReadUnexpired(slot) ==
  /\ Looked(slot) /\ slot.seen.present
  /\ slot.seen.at < slot.seen.expires_at * TicksPerSecond

InRenewalWindow(slot) ==
  slot.seen.expires_at * TicksPerSecond - slot.seen.at
    <= 15 * 24 * 60 * 60 * TicksPerSecond

\* the expiry, in seconds, the read of the slot left in the row
LeftByRead(slot) ==
  IF InRenewalWindow(slot)
  THEN (slot.seen.at + 30 * 24 * 60 * 60 * TicksPerSecond) \div TicksPerSecond
  ELSE slot.seen.expires_at

\* C21: two checks in flight with the same unexpired token both obtain the
\* session; the row still exists, its expiry is the one the later of the two
\* reads left (now + 30 days of that reader when it renewed, in the seconds
\* the row keeps), and it is never earlier than what either of them found.
C21_SameTokenRenewalsBenign ==
  \A r1, r2 \in DOMAIN slots :
    (/\ r1 # r2
     /\ ReadUnexpired(slots[r1]) /\ ReadUnexpired(slots[r2])
     /\ slots[r1].req.sessionCookie = slots[r2].req.sessionCookie
     /\ slots[r1].seen.at <= slots[r2].seen.at) =>
      /\ slots[r1].session.present /\ slots[r2].session.present
      /\ slots[r1].seen.id \in DOMAIN db
      /\ LET expiry == db[slots[r1].seen.id].expires_at
         IN  /\ \/ expiry = LeftByRead(slots[r2])
                \/ /\ slots[r1].seen.at = slots[r2].seen.at
                   /\ expiry = LeftByRead(slots[r1])
             /\ expiry >= slots[r1].seen.expires_at
             /\ expiry >= slots[r2].seen.expires_at

\* both reads fell in the renewal window, at different times: the second
\* writer's expiry is the one in the row
C21_Witness ==
  \E r1, r2 \in DOMAIN slots :
    /\ r1 # r2
    /\ ReadUnexpired(slots[r1]) /\ ReadUnexpired(slots[r2])
    /\ slots[r1].req.sessionCookie = slots[r2].req.sessionCookie
    /\ InRenewalWindow(slots[r1]) /\ InRenewalWindow(slots[r2])
    /\ slots[r1].seen.at < slots[r2].seen.at
    /\ slots[r1].seen.id \in DOMAIN db
    /\ db[slots[r1].seen.id].expires_at = LeftByRead(slots[r2])
    /\ db[slots[r1].seen.id].expires_at # LeftByRead(slots[r1])

\* the ids invalidateSession is tried with: the hashes, which rows can have,
\* and the raw tokens, which no row has
InvalidatedIds == {encodeSessionToken(tok) : tok \in Tokens} \cup Tokens

\* C22: invalidateSession(id) is an unconditional, idempotent delete.  After
\* the call no row has the id; for an id without a row the table is unchanged;
\* a second call changes nothing more; the rows of other ids are kept as they
\* were.
C22_InvalidateIdempotent ==
  \A id \in InvalidatedIds :
    LET once == invalidateSession(db, id)
        twice == invalidateSession(once, id)
    IN  /\ id \notin DOMAIN once
        /\ id \notin DOMAIN db => once = db
        /\ twice = once
        /\ DOMAIN once = (DOMAIN db) \ {id}
        /\ \A k \in DOMAIN once : once[k] = db[k]

\* a check has called invalidateSession with an id that has no row, while the
\* table holds two rows, either of which the call would delete by its id
C22_Witness ==
  \E r \in DOMAIN slots :
    /\ slots[r].pc = "done"
    /\ Did(slots[r], "invalidateSession")
    /\ slots[r].req.sessionCookie \notin DOMAIN db
    /\ Cardinality(DOMAIN db) = 2
    /\ \A id \in DOMAIN db : invalidateSession(db, id) # db

\* C23: createSession followed by validateSessionToken round-trips.  Right
\* after createSession(t, p) the table holds one more row, with id hash(t),
\* payload p and expiry creation time + 30 days in whole seconds, every other
\* row as before; validateSessionToken(t) then returns a session with that id
\* and payload and leaves the table as it is.
C23_CreateValidateRoundTrip ==
  /\ \A tok \in Tokens, cookies \in UpstreamCookieLists :
       encodeSessionToken(tok) \notin DOMAIN db =>
         LET id == encodeSessionToken(tok)
             p == SerializeCookies(cookies)
             c == createSession(db, tok, p, now)
             v == validateSessionToken(c.db, tok, now)
         IN  /\ c.ok
             /\ DOMAIN c.db = DOMAIN db \cup {id}
             /\ c.db[id].upstream_cookies = p
             /\ c.db[id].expires_at =
                  (now + 30 * 24 * 60 * 60 * TicksPerSecond) \div TicksPerSecond
             /\ \A k \in DOMAIN db : c.db[k] = db[k]
             /\ v.session.present
             /\ v.session.id = id
             /\ v.session.upstreamCookies = p
             /\ v.db = c.db
  /\ \A r \in Slots :
       LET slot == slots[r] IN
       (Done(r) /\ Did(slot, "createSession") /\ slot.session.present) =>
         /\ encodeSessionToken(slot.token) \in DOMAIN db
         /\ db[encodeSessionToken(slot.token)] =
              [expires_at |-> (now + 30 * 24 * 60 * 60 * TicksPerSecond)
                                \div TicksPerSecond,
               upstream_cookies |-> SerializeCookies(slot.login)]
         /\ validateSessionToken(db, slot.token, now).db = db
         /\ validateSessionToken(db, slot.token, now).session.upstreamCookies
              = SerializeCookies(slot.login)

\* a login has just created a row between two whole seconds, beside the row
\* of an earlier login
C23_Witness ==
  \E r \in Slots :
    /\ Done(r) /\ Did(slots[r], "createSession") /\ slots[r].session.present
    /\ now % TicksPerSecond # 0
    /\ Cardinality(DOMAIN db) = 2
    /\ \E k \in DOMAIN db :
         db[k].expires_at # db[encodeSessionToken(slots[r].token)].expires_at

\* every call `b` the slot made came after a call `a`
CalledAfter(slot, a, b) ==
  \A j \in 1..Len(slot.calls) :
    slot.calls[j] = b => \E i \in 1..(j - 1) : slot.calls[i] = a

\* the callback the slot handled passed the state check, the exchange, the
\* upstream login and createSession, in that order
PassedAllFour(slot) ==
  /\ OnCallback(slot.req)
  /\ ~Falsy(slot.req.code) /\ ~Falsy(slot.req.stateCookie)
  /\ slot.req.state = slot.req.stateCookie
  /\ slot.calls \in
       {<<"validateAuthorizationCode", "getHostConfig",
          "getUpstreamCookies", "createSession">>,
        <<"validateAuthorizationCode", "getHostConfig", "import",
          "getUpstreamCookies", "createSession">>}
  /\ slot.token \in Tokens
  /\ slot.outcome.kind = "status"
  /\ slot.outcome.status >= 200 /\ slot.outcome.status <= 299
  /\ slot.session.present
  /\ slot.session.id = encodeSessionToken(slot.token)

CallbackInOrder(slot) ==
  /\ Did(slot, "validateAuthorizationCode") =>
       /\ OnCallback(slot.req)
       /\ ~Falsy(slot.req.code) /\ ~Falsy(slot.req.stateCookie)
       /\ slot.req.state = slot.req.stateCookie
  /\ Did(slot, "getUpstreamCookies") =>
       /\ CalledAfter(slot, "validateAuthorizationCode", "getUpstreamCookies")
       /\ slot.token \in Tokens
  /\ Did(slot, "createSession") =>
       /\ CalledAfter(slot, "getUpstreamCookies", "createSession")
       /\ slot.outcome.kind \in {"status", "store"}
       /\ slot.outcome.status >= 200 /\ slot.outcome.status <= 299
  /\ slot.ops.session.kind = "set" =>
       /\ PassedAllFour(slot)
       /\ slot.pc = "done"
       /\ slot.ops.session.value = slot.token

\* C24: sessions are established only by a completed login, in a fixed order.
\* The exchange is called only after the state check passed, the upstream
\* login only after the exchange succeeded, createSession only after the
\* login answered 2xx, and the session cookie is set only after createSession
\* succeeded.  A row enters the table only in the step that ends such a
\* callback, and a session cookie that is issued has its row in the table.
C24_SessionsOnlyByCompletedLogin ==
  /\ [](\A r \in Slots :
          /\ CallbackInOrder(slots[r])
          /\ (Done(r) /\ slots[r].ops.session.kind = "set") =>
               /\ encodeSessionToken(slots[r].ops.session.value) \in DOMAIN db
               /\ db[encodeSessionToken(slots[r].ops.session.value)]
                    .upstream_cookies = slots[r].session.upstreamCookies)
  /\ [][\A id \in (DOMAIN db') \ (DOMAIN db) :
          \E r \in Slots :
            /\ slots[r].pc = "cb_login"
            /\ slots'[r].pc = "done"
            /\ PassedAllFour(slots'[r])
            /\ id = encodeSessionToken(slots'[r].token)
            /\ slots'[r].ops.session = SetOp(slots'[r].token,
                                             slots'[r].ops.session.maxAge)]_vars

\* a callback has passed all four steps and issued the session cookie, having
\* loaded the host config on the way
C24_Witness ==
  \E r \in Slots :
    /\ Done(r)
    /\ PassedAllFour(slots[r])
    /\ Did(slots[r], "import")
    /\ slots[r].ops.session.kind = "set"
    /\ encodeSessionToken(slots[r].ops.session.value) \in DOMAIN db

ConsultsStore(slot) ==
  Did(slot, "validateSessionToken") \/ Did(slot, "invalidateSession")

\* C25: dispatch depends only on the forwarded path, callback before logout
\* before everything else.  A request on the callback path runs the callback
\* flow and one on the logout path runs logout, whatever session cookie it
\* carries, and neither validates a session against the store; the other
\* paths run Redirect-to-Auth without a session cookie and the revalidation
\* flow with one.
C25_DispatchByPath ==
  \A r \in Slots :
    LET slot == slots[r]
        q == slot.req
    IN  (slot.pc # "idle" /\ ~MissingHeaders(q)) =>
          IF q.path = callbackPath
          THEN /\ slot.ops.state = DeleteOp
               /\ ~ConsultsStore(slot)
               /\ slot.pc \in {"cb_exchange", "cb_import", "cb_login", "done"}
               /\ slot.pc = "done" =>
                    /\ ~RedirectsToAuth(slot.resp)
                    /\ slot.resp.status # 200
                    /\ slot.resp.clearSiteData = None
          ELSE IF q.path = logoutPath
          THEN /\ slot.pc = "done"
               /\ slot.calls = << >>
               /\ slot.resp.status = 401
               /\ slot.resp.clearSiteData = "\"cookies\""
               /\ slot.ops = [NoOps EXCEPT !.session = DeleteOp]
          ELSE IF Falsy(q.sessionCookie)
          THEN /\ slot.pc = "done"
               /\ slot.calls = << >>
               /\ RedirectsToAuth(slot.resp)
          ELSE /\ slot.calls[1] = "validateSessionToken"
               /\ slot.pc \in {"chk_import", "chk_validate", "done"}
               /\ slot.pc = "done" => slot.resp.clearSiteData = None

HasValidSession(q) ==
  /\ q.sessionCookie \in Tokens
  /\ encodeSessionToken(q.sessionCookie) \in DOMAIN db
  /\ now < db[encodeSessionToken(q.sessionCookie)].expires_at * TicksPerSecond

\* a callback that carried the cookie of a valid session has run the callback
\* flow to its end
C25_Witness ==
  \E r \in Slots :
    /\ Done(r)
    /\ OnCallback(slots[r].req)
    /\ HasValidSession(slots[r].req)
    /\ Did(slots[r], "validateAuthorizationCode")

\* the max-ages the cookies of a list carry
MaxAgesOf(cookies) ==
  {cookies[i].maxAge : i \in {k \in 1..Len(cookies) : cookies[k].hasMaxAge}}

\* `age` is the least of the max-ages and 30 days
IsCappedMinimum(age, ages) ==
  /\ age <= 30 * 24 * 60 * 60
  /\ \A a \in ages : age <= a
  /\ age = 30 * 24 * 60 * 60 \/ age \in ages
  /\ ages = {} => age = 30 * 24 * 60 * 60

\* C26: the max-age of the session cookie a successful callback issues is the
\* minimum of the upstream cookies' max-ages and 30 days, a cookie without
\* max-age counting as unbounded; with no upstream cookie, or none carrying a
\* max-age, it is 30 days; it is never more than 30 days.
C26_SessionCookieMaxAge ==
  /\ \A r \in Slots :
       (Done(r) /\ slots[r].ops.session.kind = "set") =>
         IsCappedMinimum(slots[r].ops.session.maxAge, MaxAgesOf(slots[r].login))
  /\ \A cookies \in UpstreamCookieLists \cup {<< >>, <<CookieC, CookieB>>} :
       IsCappedMinimum(SessionMaxAge(cookies), MaxAgesOf(cookies))

\* a login whose only upstream cookie has a max-age of 40 days was issued a
\* session cookie of 30 days
C26_Witness ==
  \E r \in Slots :
    /\ Done(r) /\ slots[r].ops.session.kind = "set"
    /\ \E a \in MaxAgesOf(slots[r].login) : a > 30 * 24 * 60 * 60
    /\ slots[r].ops.session.maxAge = 30 * 24 * 60 * 60

\* now + 30 days, in the whole seconds a row keeps
LifetimeFromNow ==
  (now + 30 * 24 * 60 * 60 * TicksPerSecond) \div TicksPerSecond

\* C27: in every reachable state, at every time, each row's remaining
\* lifetime is at most 30 days.  A row is created with expiry now + 30 days
\* and renewed to now + 30 days (in the seconds the row keeps), nothing sets
\* a later one; the expiry of a row changes only in a renewal, the read of a
\* request whose row had at most 15 days left, and never to an earlier time.
C27_LifetimeAtMostThirtyDays ==
  /\ [](\A id \in DOMAIN db :
          db[id].expires_at * TicksPerSecond - now
            <= 30 * 24 * 60 * 60 * TicksPerSecond)
  /\ [][\A id \in DOMAIN db' :
          IF id \notin DOMAIN db
          THEN db'[id].expires_at = LifetimeFromNow
          ELSE db'[id].expires_at # db[id].expires_at =>
                 /\ db'[id].expires_at = LifetimeFromNow
                 /\ db'[id].expires_at > db[id].expires_at
                 /\ db[id].expires_at * TicksPerSecond - now
                      <= 15 * 24 * 60 * 60 * TicksPerSecond
                 /\ now' = now
                 /\ \E r \in Slots :
                      /\ Free(r)
                      /\ Looked(slots'[r])
                      /\ slots'[r].seen.id = id
                      /\ slots'[r].session.present]_vars

\* a row created and later renewed has exactly 30 days left, less the part
\* of a second the row does not keep
C27_Witness ==
  \E r \in Slots :
    /\ Looked(slots[r]) /\ slots[r].seen.present
    /\ slots[r].seen.id \in DOMAIN db
    /\ db[slots[r].seen.id].expires_at > slots[r].seen.expires_at
    /\ db[slots[r].seen.id].expires_at = LifetimeFromNow
    /\ now % TicksPerSecond # 0

====
